---- MODULE Spec2Model ----
(***************************************************************************)
(* Model of SparkMatcher (src/src/market/matcher.rs): the driving loop     *)
(* run(), and one round of match_orders(): snapshot of the order book,     *)
(* the two-heap matching loop, chunking of the matches, the semaphore      *)
(* bounded fan-out of submission tasks, join_all, clear_orders and the     *)
(* loop over the joined results that sends TransactionLog records.         *)
(*                                                                         *)
(* Modelling decisions:                                                    *)
(*  - an order is a record [id, price, amount]; a match is the tuple       *)
(*    <<buy id, sell id, amount>> of line 125;                             *)
(*  - an id is the name <<tag, number, form>> of a string: IdText gives    *)
(*    the characters of the string, which Bits256::from_hex_str parses on  *)
(*    lines 198-199;                                                       *)
(*  - a BinaryHeap is the set of the orders it holds; pop() takes any      *)
(*    greatest element (ties are broken arbitrarily by the heap);          *)
(*  - the snapshot is taken in the steps the code takes it in: the wait    *)
(*    for the mutex of line 87, the clone of the buys under their read     *)
(*    guard (110-115), the clone of the sells (117-122);                   *)
(*  - OrderManager::clear_orders is not part of the sources; it is called  *)
(*    on line 221 and removes the orders of the most recent snapshot, as   *)
(*    the specification says of clearOrders;                               *)
(*  - Spec is the program in a healthy environment: CONTRACT_ID is still   *)
(*    set when lines 183-185 read it again (new() has read and parsed it   *)
(*    on lines 32, 36), the logger task holds the log receiver, and no     *)
(*    order arrives.  EnvSpec, SinkSpec and IngestSpec each add one of     *)
(*    these events of the environment; FairSpec adds the scheduling.       *)
(*  - the durations of a TransactionLog are wall-clock measurements and    *)
(*    are left out of the record.                                          *)
(***************************************************************************)
EXTENDS Integers, Sequences, FiniteSets, TLC

\* ---------------------------------------------------------------- bounds
MaxOrders == 3
MaxPrice == 2
MaxAmount == 2
MaxLadder == 7
MaxDetached == 2
MaxIngest == 1
MaxRawIds == 1

\* ------------------------------------------------------ program constants
chunk_size == 2
SemaphorePermits == 3
additional_wallets == <<"wallet1", "wallet2">>
MainWallet == "main"

\* ------------------------------------------------------------ input books
Prices == 1..MaxPrice
Amounts == 0..MaxAmount
OrderTypes == [price : Prices, amount : Amounts]

Rank(t) == t.price * (MaxAmount + 1) + t.amount

\* One representative per multiset of (price, amount) pairs: the ids of a
\* side are handed out in nondecreasing Rank order.
SortedSeqs(n) ==
    {s \in [1..n -> OrderTypes] : \A k \in 1..(n - 1) : Rank(s[k]) <= Rank(s[k + 1])}

\* the ids of the orders of a side are written as the indexer writes them:
\* "0x" and 64 hex digits
Side(tag, s) ==
    {[id |-> <<tag, k, "0x">>, price |-> s[k].price, amount |-> s[k].amount] :
        k \in DOMAIN s}

\* the books of at most MaxOrders orders, buys and sells together
SmallBooks ==
    UNION {{<<Side("B", b), Side("S", s)>> : b \in SortedSeqs(p[1]), s \in SortedSeqs(p[2])} :
            p \in {q \in (0..MaxOrders) \X (0..MaxOrders) : q[1] + q[2] <= MaxOrders}}

\* One buy of amount n at price n against n sells of amount 1 at prices 1..n:
\* every sell crosses, the round has n fills.
LadderBooks ==
    {<<{[id |-> <<"B", 1, "0x">>, price |-> n, amount |-> n]},
       {[id |-> <<"S", k, "0x">>, price |-> k, amount |-> 1] : k \in 1..n}>> :
        n \in 1..MaxLadder}

\* the order o with its id written as a short name ("B1", "S3")
RawId(o) == [o EXCEPT !.id = <<o.id[1], o.id[2], "raw">>]

\* the book bk with the ids of the orders of raw written as short names
WithRawIds(bk, raw) ==
    <<{IF o \in raw THEN RawId(o) ELSE o : o \in bk[1]},
      {IF o \in raw THEN RawId(o) ELSE o : o \in bk[2]}>>

\* the book bk and the books it gives with at most MaxRawIds raw ids
RawVariants(bk) ==
    {WithRawIds(bk, raw) :
        raw \in {x \in SUBSET (bk[1] \cup bk[2]) : Cardinality(x) <= MaxRawIds}}

\* the small books, and the ladders with and without raw ids
Books == SmallBooks \cup UNION {RawVariants(bk) : bk \in LadderBooks}

\* the books with at most one buy (every ladder is one)
NarrowBooks == {bk \in Books : Cardinality(bk[1]) <= 1}

\* the books with at most one buy and at most one sell, as the order manager
\* fills them: without zero-amount orders
TinyBooks ==
    {bk \in Books : /\ Cardinality(bk[1]) <= 1 /\ Cardinality(bk[2]) <= 1
                    /\ \A o \in bk[1] \cup bk[2] : o.amount > 0}

\* ---------------------------------------------------------------- state
VARIABLES
    buy_orders,     \* order_manager.buy_orders: the resting buy orders
    sell_orders,    \* order_manager.sell_orders
    pc,             \* position of run()/match_orders()
    snap_buy,       \* the buy orders cloned by this round's snapshot
    snap_sell,      \* the sell orders cloned by this round's snapshot
    buy_queue,      \* BinaryHeap of buy orders
    sell_queue,     \* BinaryHeap of Reverse(sell orders)
    matches,        \* Vec<(String, String, u128)>
    total_amount,
    iterations,     \* iterations of the matching loop run by this round
    chunks,         \* Vec<Vec<(String, String, u128)>>
    i,              \* index of the chunk the dispatch loop is at
    semaphore,      \* permits available
    tasks,          \* spawned submission tasks, in spawn order
    results,        \* output of join_all
    r,              \* position of the loop over results (1-based)
    clear_invoked,  \* clear_orders was called by this round
    round_logs,     \* TransactionLog records sent on log_sender by this round
    ret,            \* what the last match_orders call returned
    receiver_alive, \* the logger task still holds the receiver of log_sender
    detached,       \* tasks of earlier rounds still running, their handles dropped
    ingested        \* orders added to the book since construction

vars == <<buy_orders, sell_orders, pc, snap_buy, snap_sell, buy_queue, sell_queue,
          matches, total_amount, chunks, i, semaphore, tasks, results, r,
          clear_invoked, round_logs, ret, iterations, receiver_alive, detached,
          ingested>>

book == <<buy_orders, sell_orders>>
matching == <<buy_queue, sell_queue, matches, total_amount, iterations>>
env == <<receiver_alive, detached, ingested>>
dispatch == <<chunks, i, semaphore, tasks>>
report == <<results, r, round_logs>>

\* --------------------------------------------------------------- helpers
Min(a, b) == IF a <= b THEN a ELSE b

\* SpotOrder's Ord: orders compare by price.
OrderLeq(a, b) == a.price <= b.price

\* BinaryHeap::pop on buy_queue: a greatest order.
BestBuys(q) == {b \in q : \A o \in q : OrderLeq(o, b)}

\* BinaryHeap::pop on sell_queue (Reverse): a least order.
BestSells(q) == {s \in q : \A o \in q : OrderLeq(s, o)}

\* line 131
Crosses_strict(b, s) == b.price > s.price
Crosses(b, s) == b.price >= s.price

\* line 132
MatchAmount_buy(b, s) == b.amount
MatchAmount(b, s) == Min(b.amount, s.amount)

Requeue_always(q, o, m) ==
    (q \ {o}) \cup {[o EXCEPT !.amount = o.amount - m]}

\* lines 136-145: the order after the decrement, pushed back when amount > 0
Requeue(q, o, m) ==
    (q \ {o}) \cup (IF o.amount - m > 0 THEN {[o EXCEPT !.amount = o.amount - m]} ELSE {})

\* slice::chunks(n): consecutive chunks of n elements, the last one shorter
RECURSIVE Chunks_overlap(_, _)
Chunks_overlap(s, n) ==
    IF Len(s) = 0 THEN <<>>
    ELSE IF Len(s) <= n THEN <<s>>
    ELSE <<SubSeq(s, 1, n)>> \o Chunks_overlap(SubSeq(s, n, Len(s)), n)

RECURSIVE Chunks(_, _)
Chunks(s, n) ==
    IF Len(s) = 0 THEN <<>>
    ELSE IF Len(s) <= n THEN <<s>>
    ELSE <<SubSeq(s, 1, n)>> \o Chunks(SubSeq(s, n + 1, Len(s)), n)

\* lines 180-191: the wallet of the market contract that submits chunk k
WalletFor_offbyone(k) ==
    IF k = 0 THEN MainWallet
    ELSE IF k < Len(additional_wallets) THEN additional_wallets[k]
    ELSE MainWallet
WalletFor(k) ==
    IF k = 0 THEN MainWallet
    ELSE IF k <= Len(additional_wallets) THEN additional_wallets[k]
    ELSE MainWallet

\* the characters of a hex digit string, by value
HexChars == <<"0", "1", "2", "3", "4", "5", "6", "7", "8", "9",
              "a", "b", "c", "d", "e", "f">>
UpperHexChars == <<"0", "1", "2", "3", "4", "5", "6", "7", "8", "9",
                   "A", "B", "C", "D", "E", "F">>

\* the value of every hex digit, lower and upper case
HexDigitValue ==
    [c \in {HexChars[v] : v \in 1..16} \cup {UpperHexChars[v] : v \in 1..16} |->
        (CHOOSE v \in 1..16 : HexChars[v] = c \/ UpperHexChars[v] = c) - 1]

IsHexDigit(c) == c \in DOMAIN HexDigitValue

HexVal(c) == HexDigitValue[c]

\* the second last hex digit of the id of an order, by the tag of its name
TagDigit(tag) ==
    CASE tag = "B" -> "b"
      [] tag = "S" -> "5"
      [] tag = "NB" -> "A"
      [] tag = "NS" -> "D"

\* the 64 hex digits of the id <<tag, k, _>>
HexDigits64(tag, k) ==
    [j \in 1..64 |-> IF j = 63 THEN TagDigit(tag)
                     ELSE IF j = 64 THEN HexChars[k + 1]
                     ELSE "0"]

\* the characters of the String an id names
IdText(id) ==
    CASE id[3] = "0x" -> <<"0", "x">> \o HexDigits64(id[1], id[2])
      [] id[3] = "bare" -> HexDigits64(id[1], id[2])
      [] id[3] = "raw" -> <<id[1], HexChars[id[2] + 1]>>

\* Bits256::from_hex_str: an optional "0x" is stripped, then the rest has to
\* be the hex of exactly 32 bytes
from_hex_str(text) ==
    LET hex == IF Len(text) >= 2 /\ text[1] = "0" /\ text[2] = "x"
               THEN SubSeq(text, 3, Len(text)) ELSE text
    IN IF Len(hex) = 64 /\ \A j \in 1..64 : IsHexDigit(hex[j])
       THEN [ok |-> TRUE,
             bytes |-> [j \in 1..32 |-> 16 * HexVal(hex[2 * j - 1]) + HexVal(hex[2 * j])]]
       ELSE [ok |-> FALSE]

\* the ids an order can have
OrderIds == {"B", "S", "NB", "NS"} \X (0..15) \X {"0x", "bare", "raw"}

\* lines 198-199: what Bits256::from_hex_str gives for the String of each id
Converted == [id \in OrderIds |-> from_hex_str(IdText(id))]

\* lines 194-202: the conversion of buy id, sell id of every match of the
\* chunk, flattened
RECURSIVE ChunkIds(_)
ChunkIds(c) ==
    IF Len(c) = 0 THEN <<>>
    ELSE <<Converted[c[1][1]], Converted[c[1][2]]>> \o ChunkIds(Tail(c))

\* lines 198-199: no unwrap of the chunk panics
IdsOk(c) == LET conv == ChunkIds(c) IN \A k \in DOMAIN conv : conv[k].ok

\* lines 194-202: chunk_bits256_ids
Bits256Ids(c) == LET conv == ChunkIds(c) IN [k \in DOMAIN conv |-> conv[k].bytes]

\* line 178: the permits left after acquire_owned
Acquired_nopermit(sem) == sem
Acquired(sem) == sem - 1

\* OrderManager::clear_orders (its body is not part of the sources): the side
\* bk of the book after the call of line 221, which removes the orders of the
\* most recent snapshot
clear_orders(bk, snap) == bk \ snap

\* lines 227-237 (the durations are left out)
TransactionLog ==
    [total_amount |-> total_amount,
     matches_len  |-> Len(matches),
     buy_orders   |-> Cardinality(buy_queue),
     sell_orders  |-> Cardinality(sell_queue)]

\* ------------------------------------------------------------------ Init
InitWith(books) ==
    /\ \E bk \in books : buy_orders = bk[1] /\ sell_orders = bk[2]
    /\ pc = "idle"
    /\ snap_buy = {} /\ snap_sell = {}
    /\ buy_queue = {} /\ sell_queue = {}
    /\ matches = <<>> /\ total_amount = 0
    /\ chunks = <<>> /\ i = 0 /\ semaphore = 0 /\ tasks = <<>>
    /\ results = <<>> /\ r = 1 /\ round_logs = <<>>
    /\ clear_invoked = FALSE
    /\ ret = "none"
    /\ iterations = 0
    /\ receiver_alive = TRUE
    /\ detached = 0
    /\ ingested = 0

Init == InitWith(Books)

\* --------------------------------------------------------------- actions
\* run() line 78 and match_orders lines 85-87: a round starts with the state
\* of its locals and waits for the mutex of last_receive_time
StartRound ==
    /\ pc = "idle"
    /\ snap_buy' = {} /\ snap_sell' = {}
    /\ buy_queue' = {} /\ sell_queue' = {}
    /\ matches' = <<>> /\ total_amount' = 0
    /\ chunks' = <<>> /\ i' = 0 /\ semaphore' = 0 /\ tasks' = <<>>
    /\ results' = <<>> /\ r' = 1 /\ round_logs' = <<>>
    /\ clear_invoked' = FALSE
    /\ ret' = "none"
    /\ iterations' = 0
    /\ pc' = "lock"
    /\ UNCHANGED <<book, env>>

\* lines 87-110: the mutex is taken, the time since the last round is read
\* (left out with the durations), the empty heaps are made; the round waits
\* for the read lock of buy_orders
LockReceiveTime ==
    /\ pc = "lock"
    /\ pc' = "read_buys"
    /\ UNCHANGED <<book, snap_buy, snap_sell, matching, dispatch, report,
                   clear_invoked, ret, env>>

\* lines 110-117: under the read lock of buy_orders the buys are cloned into
\* buy_queue; the round keeps the guard and waits for the read lock of
\* sell_orders
SnapshotBuys ==
    /\ pc = "read_buys"
    /\ snap_buy' = buy_orders
    /\ buy_queue' = buy_orders
    /\ pc' = "read_sells"
    /\ UNCHANGED <<book, snap_sell, sell_queue, matches, total_amount, iterations,
                   dispatch, report, clear_invoked, ret, env>>

\* lines 117-126: under the read lock of sell_orders the sells are cloned
\* into sell_queue; both guards are dropped
SnapshotSells ==
    /\ pc = "read_sells"
    /\ snap_sell' = sell_orders
    /\ sell_queue' = sell_orders
    /\ pc' = "match"
    /\ UNCHANGED <<book, snap_buy, buy_queue, matches, total_amount, iterations,
                   dispatch, report, clear_invoked, ret, env>>

\* lines 128-145: both heaps give an order and the pair crosses
MatchCross ==
    /\ pc = "match"
    /\ \E b \in BestBuys(buy_queue), s \in BestSells(sell_queue) :
        /\ Crosses(b, s)
        /\ LET match_amount == MatchAmount(b, s) IN
            /\ matches' = Append(matches, <<b.id, s.id, match_amount>>)
            /\ total_amount' = total_amount + match_amount
            /\ buy_queue' = Requeue(buy_queue, b, match_amount)
            /\ sell_queue' = Requeue(sell_queue, s, match_amount)
    /\ iterations' = iterations + 1
    /\ UNCHANGED <<book, pc, snap_buy, snap_sell, dispatch, report, clear_invoked, ret, env>>

MatchNoCross_keepbuy ==
    /\ pc = "match"
    /\ \E b \in BestBuys(buy_queue), s \in BestSells(sell_queue) :
        /\ ~Crosses(b, s)
        /\ buy_queue' = buy_queue
        /\ sell_queue' = sell_queue \ {s}
    /\ iterations' = iterations + 1
    /\ UNCHANGED <<book, pc, snap_buy, snap_sell, matches, total_amount, dispatch,
                   report, clear_invoked, ret, env>>

\* lines 128-131, 146-148: the pair does not cross; the sell is pushed back,
\* the buy is dropped, the loop goes on
MatchNoCross ==
    /\ pc = "match"
    /\ \E b \in BestBuys(buy_queue), s \in BestSells(sell_queue) :
        /\ ~Crosses(b, s)
        /\ buy_queue' = buy_queue \ {b}
        /\ sell_queue' = sell_queue
    /\ iterations' = iterations + 1
    /\ UNCHANGED <<book, pc, snap_buy, snap_sell, matches, total_amount, dispatch,
                   report, clear_invoked, ret, env>>

\* lines 128-129: one of the two pops gives None and the loop ends; the order
\* popped from the other heap is dropped with the tuple.
LoopExit ==
    /\ buy_queue = {} \/ sell_queue = {}
    /\ \/ buy_queue = {} /\ buy_queue' = {}
       \/ \E b \in BestBuys(buy_queue) : buy_queue' = buy_queue \ {b}
    /\ \/ sell_queue = {} /\ sell_queue' = {}
       \/ \E s \in BestSells(sell_queue) : sell_queue' = sell_queue \ {s}

MatchEndEmpty_clear ==
    /\ pc = "match"
    /\ LoopExit
    /\ Len(matches) = 0
    /\ buy_orders' = clear_orders(buy_orders, snap_buy)
    /\ sell_orders' = clear_orders(sell_orders, snap_sell)
    /\ clear_invoked' = TRUE
    /\ ret' = "Ok"
    /\ pc' = "idle"
    /\ UNCHANGED <<snap_buy, snap_sell, matches, total_amount, iterations,
                   dispatch, report, env>>

\* lines 154-157: no match, the round returns Ok
MatchEndEmpty ==
    /\ pc = "match"
    /\ LoopExit
    /\ Len(matches) = 0
    /\ ret' = "Ok"
    /\ pc' = "idle"
    /\ UNCHANGED <<book, snap_buy, snap_sell, matches, total_amount, iterations,
                   dispatch, report, clear_invoked, env>>

\* lines 154-175: there are matches; they are chunked and the semaphore is made
MatchEndDispatch ==
    /\ pc = "match"
    /\ LoopExit
    /\ Len(matches) # 0
    /\ chunks' = Chunks(matches, chunk_size)
    /\ semaphore' = SemaphorePermits
    /\ tasks' = <<>>
    /\ i' = 0
    /\ pc' = "acquire"
    /\ UNCHANGED <<book, snap_buy, snap_sell, matches, total_amount, iterations,
                   report, clear_invoked, ret, env>>

\* line 178: the dispatch loop takes a permit, waiting while none is free
Acquire ==
    /\ pc = "acquire"
    /\ semaphore > 0
    /\ semaphore' = Acquired(semaphore)
    /\ pc' = "spawn"
    /\ UNCHANGED <<book, snap_buy, snap_sell, matching, chunks, i, tasks, report,
                   clear_invoked, ret, env>>

\* lines 180-217: the market contract of the chunk is chosen, the ids of the
\* chunk are converted and the task that owns the permit is spawned
Spawn ==
    /\ pc = "spawn"
    /\ IdsOk(chunks[i + 1])
    /\ tasks' = Append(tasks, [index  |-> i,
                               wallet |-> WalletFor(i),
                               chunk  |-> chunks[i + 1],
                               ids    |-> Bits256Ids(chunks[i + 1]),
                               status |-> "running"])
    /\ i' = i + 1
    /\ pc' = IF i + 1 < Len(chunks) THEN "acquire" ELSE "join"
    /\ UNCHANGED <<book, snap_buy, snap_sell, matching, chunks, semaphore, report,
                   clear_invoked, ret, env>>

\* lines 194-202: Bits256::from_hex_str gives Err for an id of the chunk and
\* unwrap panics; the panic unwinds match_orders and run(): the permit taken
\* on line 178 is dropped, the handles of the tasks spawned for the earlier
\* chunks are dropped and these tasks have not been joined
IdPanic ==
    /\ pc = "spawn"
    /\ ~IdsOk(chunks[i + 1])
    /\ semaphore' = semaphore + 1
    /\ pc' = "panicked_ids"
    /\ UNCHANGED <<book, snap_buy, snap_sell, matching, chunks, i, tasks, report,
                   clear_invoked, ret, env>>

\* lines 206-215: a task ends and its permit is dropped
Finish(t, outcome) ==
    /\ t \in DOMAIN tasks
    /\ tasks[t].status = "running"
    /\ tasks' = [tasks EXCEPT ![t].status = outcome]
    /\ semaphore' = semaphore + 1
    /\ UNCHANGED <<book, pc, snap_buy, snap_sell, matching, chunks, i, report,
                   clear_invoked, ret, env>>

\* lines 208-212: match_order_many returned Ok
TaskOk == \E t \in DOMAIN tasks : Finish(t, "ok")

\* lines 208, 213: match_order_many returned an error
TaskErr == \E t \in DOMAIN tasks : Finish(t, "err")

\* line 206: the task panicked or was cancelled; join gives a JoinError
TaskPanic == \E t \in DOMAIN tasks : Finish(t, "panic")

\* line 220: join_all returns once every task has ended
JoinAll ==
    /\ pc = "join"
    /\ \A t \in DOMAIN tasks : tasks[t].status # "running"
    /\ results' = [t \in DOMAIN tasks |-> tasks[t].status]
    /\ pc' = "clear"
    /\ UNCHANGED <<book, snap_buy, snap_sell, matching, dispatch, r, round_logs,
                   clear_invoked, ret, env>>

\* line 221: clear_orders is called, whatever the results are
ClearOrders ==
    /\ pc = "clear"
    /\ buy_orders' = clear_orders(buy_orders, snap_buy)
    /\ sell_orders' = clear_orders(sell_orders, snap_sell)
    /\ clear_invoked' = TRUE
    /\ r' = 1
    /\ pc' = "report"
    /\ UNCHANGED <<snap_buy, snap_sell, matching, dispatch, results, round_logs, ret, env>>

\* lines 223-241: the next result is Ok(Ok(())): a TransactionLog is sent
ReportOk ==
    /\ pc = "report"
    /\ r <= Len(results)
    /\ results[r] = "ok"
    /\ receiver_alive
    /\ round_logs' = Append(round_logs, TransactionLog)
    /\ r' = r + 1
    /\ UNCHANGED <<book, pc, snap_buy, snap_sell, matching, dispatch, results,
                   clear_invoked, ret, env>>

\* lines 242-245: the next result is Ok(Err(e)): match_orders returns Err
ReportErr ==
    /\ pc = "report"
    /\ r <= Len(results)
    /\ results[r] = "err"
    /\ ret' = "Err"
    /\ pc' = "idle"
    /\ UNCHANGED <<book, snap_buy, snap_sell, matching, dispatch, report, clear_invoked,
                   env>>

ReportJoinErr_continue ==
    /\ pc = "report"
    /\ r <= Len(results)
    /\ results[r] = "panic"
    /\ r' = r + 1
    /\ UNCHANGED <<book, pc, snap_buy, snap_sell, matching, dispatch, results, round_logs,
                   clear_invoked, ret, env>>

\* lines 246-249: the next result is Err(JoinError): match_orders returns Err
ReportJoinErr ==
    /\ pc = "report"
    /\ r <= Len(results)
    /\ results[r] = "panic"
    /\ ret' = "Err"
    /\ pc' = "idle"
    /\ UNCHANGED <<book, snap_buy, snap_sell, matching, dispatch, report, clear_invoked,
                   env>>

\* line 253: every result was Ok(Ok(())): match_orders returns Ok
ReportDone ==
    /\ pc = "report"
    /\ r > Len(results)
    /\ ret' = "Ok"
    /\ pc' = "idle"
    /\ UNCHANGED <<book, snap_buy, snap_sell, matching, dispatch, report, clear_invoked,
                   env>>

Next ==
    \/ StartRound
    \/ LockReceiveTime
    \/ SnapshotBuys
    \/ SnapshotSells
    \/ MatchCross
    \/ MatchNoCross
    \/ MatchEndEmpty
    \/ MatchEndDispatch
    \/ Acquire
    \/ Spawn
    \/ IdPanic
    \/ TaskOk
    \/ TaskErr
    \/ TaskPanic
    \/ JoinAll
    \/ ClearOrders
    \/ ReportOk
    \/ ReportErr
    \/ ReportJoinErr
    \/ ReportDone

Spec == Init /\ [][Next]_vars

\* ---------------------------------------------------- scheduling (FairSpec)
\* the steps of the task that runs run() and match_orders
RoundStep ==
    \/ StartRound \/ LockReceiveTime \/ SnapshotBuys \/ SnapshotSells
    \/ MatchCross \/ MatchNoCross \/ MatchEndEmpty \/ MatchEndDispatch
    \/ Acquire \/ Spawn \/ IdPanic \/ JoinAll \/ ClearOrders
    \/ ReportOk \/ ReportErr \/ ReportJoinErr \/ ReportDone

\* a submission task ends: its match_order_many call returns or the task dies
TaskStep == TaskOk \/ TaskErr \/ TaskPanic

\* The runtime runs every task that can make a step, and every submission
\* call returns in the end.
FairSpec ==
    /\ InitWith(NarrowBooks)
    /\ [][Next]_vars
    /\ WF_vars(RoundStep)
    /\ WF_vars(TaskStep)

\* ------------------------------------------ CONTRACT_ID unreadable (EnvSpec)
\* lines 183-185: ev("CONTRACT_ID")? or ContractId::from_str(..)? fails for a
\* chunk submitted with an additional wallet; match_orders returns the error
\* at once: the permit taken on line 178 is dropped, the vector of handles is
\* dropped and the tasks that have not ended go on running, detached
EvFail ==
    /\ pc = "spawn"
    /\ i >= 1 /\ i <= Len(additional_wallets)
    /\ LET running == Cardinality({t \in DOMAIN tasks : tasks[t].status = "running"}) IN
        /\ detached + running <= MaxDetached
        /\ detached' = detached + running
    /\ tasks' = <<>>
    /\ semaphore' = semaphore + 1
    /\ ret' = "Err"
    /\ pc' = "idle"
    /\ UNCHANGED <<book, snap_buy, snap_sell, matching, chunks, i, report,
                   clear_invoked, receiver_alive, ingested>>

\* lines 206-215: a task of an earlier round ends; nobody reads its result
DetachedFinish ==
    /\ detached > 0
    /\ detached' = detached - 1
    /\ UNCHANGED <<book, pc, snap_buy, snap_sell, matching, dispatch, report,
                   clear_invoked, ret, receiver_alive, ingested>>

NextEnv == Next \/ EvFail \/ DetachedFinish

EnvSpec == InitWith(NarrowBooks) /\ [][NextEnv]_vars

\* ------------------------------------------------ logger gone (SinkSpec)
\* the logger task spawned on line 42 ends and drops the receiver
LoggerEnds ==
    /\ receiver_alive
    /\ receiver_alive' = FALSE
    /\ UNCHANGED <<book, pc, snap_buy, snap_sell, matching, dispatch, report,
                   clear_invoked, ret, detached, ingested>>

\* line 239: send returns Err on a closed channel and unwrap panics; the panic
\* unwinds match_orders and run()
SendPanic ==
    /\ pc = "report"
    /\ r <= Len(results)
    /\ results[r] = "ok"
    /\ ~receiver_alive
    /\ pc' = "panicked_send"
    /\ UNCHANGED <<book, snap_buy, snap_sell, matching, dispatch, report, clear_invoked,
                   ret, env>>

NextSink == Next \/ LoggerEnds \/ SendPanic

SinkSpec == InitWith(NarrowBooks) /\ [][NextSink]_vars

\* --------------------------------------------- order ingestion (IngestSpec)
\* the order manager inserts an order that arrived, under the write lock of
\* its side; it lets no zero-amount order in.  The write lock of buy_orders
\* is not to be had while the round holds the read guard of line 110, from
\* the clone of the buys to the end of the clone of the sells.  The ids of
\* these orders are written without the "0x".
Ingest ==
    /\ ingested < MaxIngest
    /\ ingested' = ingested + 1
    /\ \E t \in {u \in OrderTypes : u.amount > 0} :
        \/ /\ pc # "read_sells"
           /\ buy_orders' = buy_orders \cup
                  {[id |-> <<"NB", ingested + 1, "bare">>,
                    price |-> t.price, amount |-> t.amount]}
           /\ UNCHANGED sell_orders
        \/ /\ sell_orders' = sell_orders \cup
                  {[id |-> <<"NS", ingested + 1, "bare">>,
                    price |-> t.price, amount |-> t.amount]}
           /\ UNCHANGED buy_orders
    /\ UNCHANGED <<pc, snap_buy, snap_sell, matching, dispatch, report, clear_invoked,
                   ret, receiver_alive, detached>>

NextIngest == Next \/ Ingest

IngestSpec == InitWith(TinyBooks) /\ [][NextIngest]_vars

TypeOK ==
    /\ pc \in {"idle", "lock", "read_buys", "read_sells", "match", "acquire", "spawn",
              "join", "clear", "report", "panicked_ids", "panicked_send"}
    /\ ret \in {"none", "Ok", "Err"}
    /\ semaphore \in 0..SemaphorePermits
    /\ i \in 0..Len(chunks)

\* ------------------------------------------------- definitions for claims
\* a task of this round ended with a submission error or failed to join
FailedRound == \E t \in DOMAIN tasks : tasks[t].status \in {"err", "panic"}

AllSucceeded == \A t \in DOMAIN tasks : tasks[t].status = "ok"

InFlight == {t \in DOMAIN tasks : tasks[t].status = "running"}

\* sum of the amounts of the fills of ms whose component c is id
RECURSIVE SumFills(_, _, _)
SumFills(ms, c, id) ==
    IF Len(ms) = 0 THEN 0
    ELSE (IF ms[1][c] = id THEN ms[1][3] ELSE 0) + SumFills(Tail(ms), c, id)

RECURSIVE SumAll(_)
SumAll(ms) == IF Len(ms) = 0 THEN 0 ELSE ms[1][3] + SumAll(Tail(ms))

RECURSIVE SumAmounts(_)
SumAmounts(os) ==
    IF os = {} THEN 0
    ELSE LET o == CHOOSE x \in os : TRUE IN o.amount + SumAmounts(os \ {o})

RECURSIVE Flatten(_)
Flatten(cs) == IF Len(cs) = 0 THEN <<>> ELSE cs[1] \o Flatten(Tail(cs))

\* what is left of a snapshot order after the fills of ms
RemBuy(b, ms) == b.amount - SumFills(ms, 1, b.id)
RemSell(s, ms) == s.amount - SumFills(ms, 2, s.id)

Referenced(ms, c, id) == \E k \in DOMAIN ms : ms[k][c] = id

\* the step appends one fill to matches
NewFill == Len(matches') = Len(matches) + 1
LastFill == matches'[Len(matches')]

\* C1: in a round in which a batch fails (submission error or join failure)
\* clear_orders is never invoked and the book holds the orders it held when
\* the round took its snapshot.
C1_NoClearOnFailure ==
    FailedRound =>
        /\ ~clear_invoked
        /\ buy_orders = snap_buy
        /\ sell_orders = snap_sell

\* C2: in a round in which a batch fails no TransactionLog record is sent,
\* whatever the index of the failing batch and the outcomes of the others.
C2_NoLogOnFailure == FailedRound => Len(round_logs) = 0

\* C3: a round with at least one fill whose batches all succeeded has sent
\* exactly one TransactionLog record when it returns.
C3_OneLogPerRound ==
    (pc = "idle" /\ ret = "Ok" /\ Len(matches) > 0 /\ AllSucceeded)
        => Len(round_logs) = 1

\* C4: at most 3 submission tasks hold a semaphore permit at any time.
C4_ConcurrencyBound == Cardinality(InFlight) <= 3

\* three tasks are in flight and the dispatch loop waits for a permit for a
\* further chunk
C4_Witness ==
    /\ pc = "acquire"
    /\ semaphore = 0
    /\ Cardinality(InFlight) = 3
    /\ i < Len(chunks)

\* C5, fill part: a fill appended by a step pairs a buy and a sell of the
\* snapshot with buy.price >= sell.price, for the minimum of what is left of
\* the two orders before the step.
C5_FillStep ==
    NewFill =>
        /\ matches' = Append(matches, LastFill)
        /\ \E b \in snap_buy, s \in snap_sell :
            /\ b.price >= s.price
            /\ LastFill = <<b.id, s.id, Min(RemBuy(b, matches), RemSell(s, matches))>>

\* C5, single pair: one buy and one sell that cross give exactly one fill of
\* the minimum of the two amounts.
C5_SinglePair ==
    (pc # "match" /\ Cardinality(snap_buy) = 1 /\ Cardinality(snap_sell) = 1)
        => \A b \in snap_buy, s \in snap_sell :
            b.price >= s.price => matches = << <<b.id, s.id, Min(b.amount, s.amount)>> >>

\* C5, no crossing: every buy price below every sell price gives no fill.
C5_NoCross ==
    (\A b \in snap_buy, s \in snap_sell : b.price < s.price) => Len(matches) = 0

\* C5: crossing correctness of the matching loop.
C5_Crossing == [][C5_FillStep]_vars /\ []C5_SinglePair /\ []C5_NoCross

\* matching is over for a single crossing pair of different positive amounts
\* at equal prices
C5_Witness ==
    /\ pc # "match"
    /\ Len(matches) = 1
    /\ \E b \in snap_buy, s \in snap_sell :
        /\ snap_buy = {b} /\ snap_sell = {s}
        /\ b.price = s.price
        /\ 0 < s.amount /\ s.amount < b.amount
        /\ matches[1] = <<b.id, s.id, s.amount>>

\* C6, state part: the fills that reference an order sum to at most its
\* original amount, no queued order has a negative amount, a queued order
\* holds what the fills left of it, and the fills of the round sum to at most
\* the original amount of each side.
C6_Conserved ==
    /\ \A b \in snap_buy : SumFills(matches, 1, b.id) <= b.amount
    /\ \A s \in snap_sell : SumFills(matches, 2, s.id) <= s.amount
    /\ \A o \in buy_queue \cup sell_queue : o.amount >= 0
    /\ \A o \in buy_queue : \E b \in snap_buy : b.id = o.id /\ o.amount = RemBuy(b, matches)
    /\ \A o \in sell_queue : \E s \in snap_sell : s.id = o.id /\ o.amount = RemSell(s, matches)
    /\ SumAll(matches) <= SumAmounts(snap_buy)
    /\ SumAll(matches) <= SumAmounts(snap_sell)

\* C6, step part: an order that fills have brought to zero is not paired again.
C6_NoPairingAfterZero ==
    NewFill =>
        /\ \A b \in snap_buy :
            (b.id = LastFill[1] /\ Referenced(matches, 1, b.id)) => RemBuy(b, matches) > 0
        /\ \A s \in snap_sell :
            (s.id = LastFill[2] /\ Referenced(matches, 2, s.id)) => RemSell(s, matches) > 0

\* C6: conservation of amounts through the matching loop.
C6_Conservation == []C6_Conserved /\ [][C6_NoPairingAfterZero]_vars

\* a buy was filled in two steps down to zero
C6_Witness ==
    \E b \in snap_buy :
        /\ b.amount > 1
        /\ RemBuy(b, matches) = 0
        /\ Cardinality({k \in DOMAIN matches : matches[k][1] = b.id}) >= 2
        /\ b \notin buy_queue

\* C7: every fill of the round has amount > 0 and is appended for two orders
\* that both have something left, zero-amount orders of the snapshot included.
C7_FillPositivity ==
    /\ [](\A k \in DOMAIN matches : matches[k][3] > 0)
    /\ [][NewFill =>
            \A b \in snap_buy, s \in snap_sell :
                (b.id = LastFill[1] /\ s.id = LastFill[2]) =>
                    (RemBuy(b, matches) > 0 /\ RemSell(s, matches) > 0)]_vars

\* C8: buy_orders and sell_orders of a TransactionLog record are the numbers
\* of snapshot buys and sells that have amount left after matching.
C8_RestingDepth ==
    \A k \in DOMAIN round_logs :
        /\ round_logs[k].buy_orders =
              Cardinality({b \in snap_buy : RemBuy(b, matches) > 0})
        /\ round_logs[k].sell_orders =
              Cardinality({s \in snap_sell : RemSell(s, matches) > 0})

\* C9: the chunks are consecutive batches of exactly 2 fills, the last one of
\* 1 or 2; concatenated in index order they are the fill list; a batch is
\* submitted by at most one task.
C9_Partition ==
    pc # "match" =>
        /\ Flatten(chunks) = matches
        /\ \A k \in DOMAIN chunks :
            IF k < Len(chunks) THEN Len(chunks[k]) = 2 ELSE Len(chunks[k]) \in {1, 2}
        /\ Len(tasks) <= Len(chunks)
        /\ \A t \in DOMAIN tasks : tasks[t].chunk = SubSeq(matches, 2 * t - 1, Min(2 * t, Len(matches)))
        /\ \A t, u \in DOMAIN tasks : t # u => tasks[t].index # tasks[u].index

\* three fills were split into a batch of 2 and a batch of 1, both submitted
C9_Witness ==
    /\ Len(matches) = 3
    /\ Len(chunks) = 2
    /\ Len(chunks[2]) = 1
    /\ Len(tasks) = 2

\* C10: batch 0 is submitted with the primary wallet, batch k in 1..2 with
\* additional wallet k, every later batch with the primary wallet.
C10_IdentityAssignment ==
    \A t \in DOMAIN tasks :
        /\ tasks[t].index = t - 1
        /\ tasks[t].chunk = chunks[t]
        /\ tasks[t].wallet =
              CASE t - 1 = 0 -> "main"
                [] t - 1 = 1 -> "wallet1"
                [] t - 1 = 2 -> "wallet2"
                [] OTHER -> "main"

\* four batches were spawned: main, wallet1, wallet2, main
C10_Witness ==
    /\ Len(tasks) = 4
    /\ tasks[1].wallet = "main" /\ tasks[2].wallet = "wallet1"
    /\ tasks[3].wallet = "wallet2" /\ tasks[4].wallet = "main"

\* C11: a round with at least one fill that has returned has returned Ok
\* exactly when every batch was spawned and every task ended with Ok; a
\* submission error or a join failure makes it return Err.
C11_RoundOutcome ==
    (pc = "idle" /\ ret # "none" /\ Len(matches) > 0) =>
        /\ ret = "Ok" <=> (Len(tasks) = Len(chunks) /\ AllSucceeded)
        /\ FailedRound => ret = "Err"

\* a round of two batches returned Err for a join failure of the second
C11_Witness ==
    /\ pc = "idle" /\ ret = "Err"
    /\ Len(tasks) = 2
    /\ tasks[1].status = "ok" /\ tasks[2].status = "panic"

\* C12: matching gives no fill when a side of the snapshot is empty, and a
\* round without fills returns Ok with no batch submitted, clear_orders not
\* invoked, no TransactionLog sent and the book as the snapshot found it.
C12_NoFillRound ==
    /\ (pc # "match" /\ (snap_buy = {} \/ snap_sell = {})) => Len(matches) = 0
    /\ (pc = "idle" /\ ret # "none" /\ Len(matches) = 0) =>
        /\ ret = "Ok"
        /\ Len(chunks) = 0 /\ Len(tasks) = 0
        /\ ~clear_invoked
        /\ Len(round_logs) = 0
        /\ buy_orders = snap_buy /\ sell_orders = snap_sell

\* a round over a book with buys and no sell has returned
C12_Witness ==
    /\ pc = "idle" /\ ret = "Ok"
    /\ snap_buy # {} /\ snap_sell = {}
    /\ Len(matches) = 0
    /\ buy_orders # {}

\* C13: match_orders has no task in flight when it has returned (so none is
\* in flight when the next round runs) nor when clear_orders is invoked.
C13_NoReturnInFlight ==
    /\ detached = 0
    /\ pc \in {"idle", "clear", "report"} => InFlight = {}

\* C14: a send on log_sender after the receiver is gone does not end
\* match_orders nor run(): a round whose batches all succeeded does not end in
\* the panic of the send.
C14_SinkFailureNonFatal == AllSucceeded => pc # "panicked_send"

\* a buy of the snapshot that the loop popped against a sell it did not cross:
\* it is in the heap no more although fills have not brought it to zero
DroppedBuy(b) ==
    /\ pc = "match"
    /\ \A o \in buy_queue : o.id # b.id
    /\ RemBuy(b, matches) > 0 \/ ~Referenced(matches, 1, b.id)

\* an iteration of the loop that appends no fill
NoCrossStep ==
    pc = "match" /\ iterations' = iterations + 1 /\ Len(matches') = Len(matches)

\* C15: the iteration that pops a non-crossing pair pushes the sell back and
\* drops the buy, and once it has happened the fill list changes no more in
\* the round.
C15_StopAtNoCross ==
    /\ [][NoCrossStep =>
            /\ sell_queue' = sell_queue
            /\ buy_queue' # buy_queue /\ buy_queue' \subseteq buy_queue]_vars
    /\ [][(\E b \in snap_buy : DroppedBuy(b)) => matches' = matches]_vars

\* one fill, then a buy dropped for a sell it does not cross
C15_Witness ==
    /\ Len(matches) = 1
    /\ \E b \in snap_buy : DroppedBuy(b)
    /\ \E s \in sell_queue : s.amount > 0

\* C16, permits: while the semaphore of the round exists, the permits are
\* those free, those of the tasks in flight and the one the dispatch loop
\* holds between acquire and spawn; none is held once the round returned.
C16_Permits ==
    Len(chunks) > 0 =>
        /\ semaphore + Cardinality(InFlight) + (IF pc = "spawn" THEN 1 ELSE 0) = 3
        /\ pc = "idle" => semaphore = 3

\* the round returned after a task for every batch was spawned and joined
C16_Returned ==
    /\ pc = "idle"
    /\ Len(tasks) = Len(chunks)
    /\ InFlight = {}
    /\ semaphore = 3

\* C16: every permit is given back when its task ends, with Ok or not, and,
\* every submission call returning in the end, a round that starts
\* dispatching spawns a task for every batch, joins them and returns.
C16_PermitRelease == []C16_Permits /\ ((pc = "acquire") ~> C16_Returned)

\* C17: the clear step removes exactly the orders of the round's snapshot; an
\* order that is in the book and not in the snapshot stays in the book, and
\* the next snapshot takes the whole book: the clone of the buys takes every
\* buy, and when the clone of the sells completes the snapshot the buys are
\* still the buys of the book.
C17_ClearOnlySnapshot ==
    /\ [][(pc = "clear" /\ pc' = "report") =>
            /\ buy_orders' = buy_orders \ snap_buy
            /\ sell_orders' = sell_orders \ snap_sell]_vars
    /\ [][/\ (buy_orders \ snap_buy) \subseteq buy_orders'
          /\ (sell_orders \ snap_sell) \subseteq sell_orders']_vars
    /\ [][(pc = "read_buys" /\ pc' = "read_sells") => snap_buy' = buy_orders]_vars
    /\ [][(pc = "read_sells" /\ pc' = "match") =>
            /\ snap_buy' = buy_orders
            /\ snap_sell' = sell_orders]_vars

\* C18: every iteration of the matching loop takes at least one order out of
\* the two heaps for good, so the loop runs at most B + S iterations.
C18_Terminates ==
    /\ [](iterations <= Cardinality(snap_buy) + Cardinality(snap_sell))
    /\ [][(pc = "match" /\ iterations' = iterations + 1) =>
            Cardinality(buy_queue') + Cardinality(sell_queue')
                < Cardinality(buy_queue) + Cardinality(sell_queue)]_vars

\* the loop over a snapshot with a zero-amount order has ended after two or
\* more iterations
C18_Witness ==
    /\ pc # "match"
    /\ iterations >= 2
    /\ \E o \in snap_buy \cup snap_sell : o.amount = 0

\* C19: when the loop has ended no buy and sell of the snapshot that both have
\* amount left cross.
C19_NoCrossingLeft ==
    pc # "match" =>
        \A b \in snap_buy, s \in snap_sell :
            (RemBuy(b, matches) > 0 /\ RemSell(s, matches) > 0) => b.price < s.price

\* after a fill a buy and a sell are left, both with amount
C19_Witness ==
    /\ pc # "match"
    /\ Len(matches) >= 1
    /\ \E b \in snap_buy, s \in snap_sell :
        RemBuy(b, matches) > 0 /\ RemSell(s, matches) > 0

\* C20: no two tasks in flight submit with the same wallet.
C20_IdentityExclusive ==
    \A t, u \in InFlight : t # u => tasks[t].wallet # tasks[u].wallet
====
